---- MODULE Spec2Model ----
(***************************************************************************)
(* Model of src/service-worker.js: the RESERVIN service worker.            *)
(*                                                                         *)
(* State: the CacheStorage of the origin (an ordered name -> cache map),   *)
(* the worker's lifecycle (install, activate), the CLEAR_CACHE /           *)
(* GET_VERSION message handler and one asynchronous task per intercepted   *)
(* request.  Every handler is cut at its suspension points (await, then):  *)
(* one action per continuation.                                            *)
(*                                                                         *)
(* Strings are sequences of tokens, so that String.prototype.includes and  *)
(* startsWith are computed, not assumed.                                   *)
(***************************************************************************)
EXTENDS Integers, Sequences, FiniteSets, TLC

\* ------------------------------------------------------------------ bounds
\* number of request tasks that may be in flight at once
MaxTasks == 1

\* ------------------------------------------------------- program constants
CACHE_NAME == "reservin-v1.0.1"
DYNAMIC_CACHE == "reservin-dynamic-v1.0.1"
\* a generation left behind by an earlier deployment
OLD_CACHE == "reservin-v1.0.0"

CacheNamesAll == {CACHE_NAME, DYNAMIC_CACHE, OLD_CACHE}

\* ------------------------------------------------------------------ strings
StartsWith(s, p) == Len(s) >= Len(p) /\ SubSeq(s, 1, Len(p)) = p

Includes(s, n) ==
  \E i \in 1..(Len(s) + 1) :
     i + Len(n) - 1 <= Len(s) /\ SubSeq(s, i, i + Len(n) - 1) = n

\* position of the first ":" of a URL string
RECURSIVE ColonAt(_, _)
ColonAt(s, i) ==
  IF i > Len(s) THEN 0 ELSE IF s[i] = ":" THEN i ELSE ColonAt(s, i + 1)

\* new URL(request.url).protocol : the scheme with its colon
Protocol(u) == SubSeq(u, 1, ColonAt(u, 1))

\* --------------------------------------------------------------------- URLs
Origin == <<"http", "s", ":", "//", "reservin.app">>

U_ROOT == Origin \o <<"/">>
U_INDEX == Origin \o <<"/index", ".html">>
U_PAGE == Origin \o <<"/page">>
U_LOGO == Origin \o <<"/logo", ".png">>
U_MANIFEST == Origin \o <<"/manifest", ".js", "on">>
U_STYLE == Origin \o <<"/style", ".css">>
U_BOOTSTRAP_CSS ==
  <<"http", "s", ":", "//", "cdn.jsdelivr.net",
    "/npm/bootstrap@5.3.0/dist/css/bootstrap.min", ".css">>
U_BOOTSTRAP_JS ==
  <<"http", "s", ":", "//", "cdn.jsdelivr.net",
    "/npm/bootstrap@5.3.0/dist/js/bootstrap.bundle.min", ".js">>
U_ICONS ==
  <<"http", "s", ":", "//", "cdn.jsdelivr.net",
    "/npm/bootstrap-icons@1.11.0/font/bootstrap-icons", ".css">>
U_GFONTS ==
  <<"http", "s", ":", "//", "fonts.googleapis", ".com", "/css2?family=Poppins">>
U_CDN == <<"http", "s", ":", "//", "cdn.jsdelivr.net", "/npm/chart">>
U_GSTATIC == <<"http", "s", ":", "//", "fonts.gstatic", ".com", "/poppins">>
U_PLAIN == <<"http", ":", "//", "reservin.app", "/api">>
U_EXT == <<"chrome-extension", ":", "//", "abcdef", "/content", ".js">>

\* caches.match('/index.html'): the string is resolved against the worker's URL
IndexHtml == U_INDEX

\* the pre-cache manifest
STATIC_ASSETS ==
  <<U_ROOT, U_INDEX, U_MANIFEST, U_BOOTSTRAP_CSS, U_BOOTSTRAP_JS, U_ICONS, U_GFONTS>>

\* the URLs requests are drawn from when classification is exercised
AllUrls ==
  {U_ROOT, U_INDEX, U_PAGE, U_LOGO, U_MANIFEST, U_STYLE, U_BOOTSTRAP_CSS,
   U_BOOTSTRAP_JS, U_ICONS, U_GFONTS, U_GSTATIC, U_CDN, U_PLAIN, U_EXT}

\* ----------------------------------------------------------------- requests
A_HTML == <<"text/html", ",", "application/xhtml+xml">>
A_IMAGE == <<"image", "/webp", ",", "*/*">>
A_BOTH == <<"text/html", ",", "image", "/webp">>
A_ANY == <<"*/*">>
A_EMPTY == <<>>

\* request.headers: a map from the header names present to their values
NoHeaders == [h \in {} |-> <<>>]
WithAccept(v) == [h \in {"accept"} |-> v]

HeaderSets ==
  {NoHeaders} \cup {WithAccept(v) : v \in {A_HTML, A_IMAGE, A_BOTH, A_ANY, A_EMPTY}}

\* Headers.get: null for a header that is not there
HeadersGet(hs, h) ==
  IF h \in DOMAIN hs THEN [isNull |-> FALSE, str |-> hs[h]]
  ELSE [isNull |-> TRUE, str |-> <<>>]

\* JavaScript's !v for v a string or null
Falsy(v) == v.isNull \/ v.str = <<>>

Request(m, u, hs, md) == [method |-> m, url |-> u, headers |-> hs, mode |-> md]

AllRequests ==
  {Request(m, u, hs, md) :
     m \in {"GET", "POST"}, u \in AllUrls, hs \in HeaderSets,
     md \in {"navigate", "cors"}}

CoreRequests ==
  { Request("GET", U_INDEX, WithAccept(A_HTML), "navigate"),
    Request("GET", U_PAGE, WithAccept(A_HTML), "navigate"),
    Request("GET", U_PAGE, WithAccept(A_ANY), "cors"),
    Request("GET", U_LOGO, WithAccept(A_IMAGE), "cors"),
    Request("POST", U_PAGE, WithAccept(A_ANY), "cors") }

NoRequest == Request("", <<>>, NoHeaders, "")

\* ------------------------------------------------------- strategy selection
\* the listener with the image test ahead of the HTML test
ClassifyImageFirst(req) ==
  LET acceptHeader == HeadersGet(req.headers, "accept") IN
  IF req.method # "GET" THEN "bypass"
  ELSE IF ~StartsWith(Protocol(req.url), <<"http">>) THEN "bypass"
  ELSE IF Falsy(acceptHeader) THEN "networkFirst"
  ELSE IF Includes(acceptHeader.str, <<"image">>) THEN "cacheFirst"
  ELSE IF Includes(acceptHeader.str, <<"text/html">>) THEN "networkFirst"
  ELSE IF \/ Includes(req.url, <<".css">>)
          \/ Includes(req.url, <<".js">>)
          \/ Includes(req.url, <<"fonts.googleapis">>)
          \/ Includes(req.url, <<"fonts.gstatic">>)
          \/ Includes(req.url, <<"cdn.jsdelivr.net">>) THEN "cacheFirst"
  ELSE "networkFirst"

\* the fetch listener's decision: which executor respondWith is given, or
\* "bypass" when the listener returns without calling respondWith
Classify(req) ==
  LET acceptHeader == HeadersGet(req.headers, "accept") IN
  IF req.method # "GET" THEN "bypass"
  ELSE IF ~StartsWith(Protocol(req.url), <<"http">>) THEN "bypass"
  ELSE IF Falsy(acceptHeader) THEN "networkFirst"
  ELSE IF Includes(acceptHeader.str, <<"text/html">>) THEN "networkFirst"
  ELSE IF Includes(acceptHeader.str, <<"image">>) THEN "cacheFirst"
  ELSE IF \/ Includes(req.url, <<".css">>)
          \/ Includes(req.url, <<".js">>)
          \/ Includes(req.url, <<"fonts.googleapis">>)
          \/ Includes(req.url, <<"fonts.gstatic">>)
          \/ Includes(req.url, <<"cdn.jsdelivr.net">>) THEN "cacheFirst"
  ELSE "networkFirst"

\* ---------------------------------------------------------------- responses
\* bodies: "b1" is what the server sent before activation, "b2" what it sends after
Bodies == {"b1", "b2"}
NetBodies == {"b2"}

\* a Response value: where it came from, its status and its body
Response(src, st, b) == [src |-> src, status |-> st, body |-> b]

\* no value: a response not yet produced, or a promise resolved with undefined
NoResponse == Response("none", 0, "")

\* what fetch() can settle with: a rejection, or a response of some status
NetError == Response("error", 0, "")
NetResponses == {Response("network", st, b) : st \in {200, 404}, b \in NetBodies}
NetOutcomes == NetResponses \cup {NetError}

\* new Response('Network error happened', {status: 408, ...})
Synth408 == Response("synthesized", 408, "Network error happened")
\* new Response('Resource not available', {status: 503, ...})
Synth503 == Response("synthesized", 503, "Resource not available")

\* ------------------------------------------------------------ cache storage
\* a stored entry: the status and body snapshot of the response put
NoEntry == [status |-> 0, body |-> ""]
EntryOf(r) == [status |-> r.status, body |-> r.body]

\* a cache: a map from the URLs it holds to their entries
EmptyCache == [u \in {} |-> NoEntry]
Lookup(cache, u) == IF u \in DOMAIN cache THEN cache[u] ELSE NoEntry
\* put overwrites the entry under u
PutEntry(cache, u, e) == [x \in DOMAIN cache \cup {u} |-> IF x = u THEN e ELSE cache[x]]

SeqToSet(s) == {s[i] : i \in 1..Len(s)}
Remove(s, x) == SelectSeq(s, LAMBDA y : y # x)

\* -------------------------------------------------------------------- state
VARIABLES
  phase,       \* lifecycle: "parsed", "installing", "installed", "activating", "activated"
  cacheNames,  \* the names of the existing caches, in creation order
  store,       \* store[name]: the entries of cache `name`, by URL
  inst,        \* the install listener's waitUntil chain, and the URLs addAll fetched
  act,         \* the activate listener's waitUntil chain
  claimed,     \* clients.claim() has been called
  clear,       \* the CLEAR_CACHE handler's waitUntil chain
  tasks,       \* tasks[t]: the promise handed to respondWith, and its background work
  port         \* what was posted on event.ports[0] of the latest message event

vars == <<phase, cacheNames, store, inst, act, claimed, clear, tasks, port>>

TaskIds == 1..MaxTasks

IdleTask ==
  [pc |-> "idle", req |-> NoRequest, strategy |-> "none", net |-> NoResponse,
   result |-> NoResponse, bg |-> "none", put |-> "none", orphan |-> FALSE,
   nfetch |-> 0]

\* caches.match(url) over `names` in order: the first cache holding url wins
RECURSIVE MatchIn(_, _, _)
MatchIn(names, st, u) ==
  IF names = <<>> THEN NoEntry
  ELSE IF Lookup(st[Head(names)], u) # NoEntry THEN Lookup(st[Head(names)], u)
  ELSE MatchIn(Tail(names), st, u)

\* caches.match as the executors see it: a Response, or undefined
CachesMatch(u) ==
  LET e == MatchIn(cacheNames, store, u) IN
  IF e = NoEntry THEN NoResponse ELSE Response("cache", e.status, e.body)

\* caches.open(name): the name joins the map if it is not in it
Opened(names, n) == IF n \in SeqToSet(names) THEN names ELSE Append(names, n)

\* caches.delete(name) on the storage and on the writers holding the cache
\* object: a cache removed from the map is no longer reached by lookups, so a
\* put still in flight on it is lost
DeleteCache(n) ==
  /\ cacheNames' = Remove(cacheNames, n)
  /\ store' = [store EXCEPT ![n] = EmptyCache]
  /\ tasks' = [t \in TaskIds |->
                 IF n = DYNAMIC_CACHE /\ tasks[t].put = "pending"
                 THEN [tasks[t] EXCEPT !.orphan = TRUE] ELSE tasks[t]]
  /\ inst' = IF n = CACHE_NAME /\ inst.pc = "addAll"
             THEN [inst EXCEPT !.orphan = TRUE] ELSE inst

\* the caches an earlier registration on this origin may have left behind
InitialCacheLists ==
  {<<>>, <<OLD_CACHE>>, <<DYNAMIC_CACHE, OLD_CACHE>>}

InitialStore ==
  [n \in CacheNamesAll |->
     IF n = OLD_CACHE THEN PutEntry(EmptyCache, U_INDEX, [status |-> 200, body |-> "b1"])
     ELSE IF n = DYNAMIC_CACHE THEN PutEntry(EmptyCache, U_PAGE, [status |-> 200, body |-> "b1"])
     ELSE EmptyCache]

Init ==
  /\ phase = "parsed"
  /\ cacheNames \in InitialCacheLists
  /\ store = [n \in CacheNamesAll |->
                IF n \in SeqToSet(cacheNames) THEN InitialStore[n] ELSE EmptyCache]
  /\ inst = [pc |-> "idle", logged |-> FALSE, orphan |-> FALSE, fetched |-> {}]
  /\ act = [pc |-> "idle", snapshot |-> {}, pending |-> {}, deleted |-> {}]
  /\ claimed = FALSE
  /\ clear = [pc |-> "idle", pending |-> {}]
  /\ tasks = [t \in TaskIds |-> IdleTask]
  /\ port = <<>>

\* ------------------------------------------------------------------ install
InstallEvent ==
  /\ phase = "parsed"
  /\ phase' = "installing"
  /\ inst' = [inst EXCEPT !.pc = "open"]
  /\ UNCHANGED <<cacheNames, store, act, claimed, clear, tasks, port>>

\* caches.open(CACHE_NAME) settles: .then(addAll) or, rejected, .catch(log)
InstallOpen(ok) ==
  /\ inst.pc = "open"
  /\ IF ok
     THEN /\ cacheNames' = Opened(cacheNames, CACHE_NAME)
          /\ inst' = [inst EXCEPT !.pc = "addAll"]
          /\ phase' = phase
     ELSE /\ cacheNames' = cacheNames
          /\ inst' = [inst EXCEPT !.pc = "done", !.logged = TRUE]
          /\ phase' = "installed"
  /\ UNCHANGED <<store, act, claimed, clear, tasks, port>>

\* an addAll that stores what it fetched in the dynamic generation
InstallAddAllDynamic(fetched, writeOk) ==
  /\ inst.pc = "addAll"
  /\ LET got == {STATIC_ASSETS[i] : i \in {j \in DOMAIN STATIC_ASSETS : fetched[j].status = 200}}
     IN
     /\ store' = [store EXCEPT ![DYNAMIC_CACHE] =
                    [u \in DOMAIN store[DYNAMIC_CACHE] \cup got |->
                       IF u \in got THEN [status |-> 200, body |-> "b1"]
                       ELSE store[DYNAMIC_CACHE][u]]]
     /\ inst' = [inst EXCEPT !.pc = "done", !.fetched = got,
                             !.logged = (got # SeqToSet(STATIC_ASSETS)) \/ ~writeOk]
  /\ phase' = "installed"
  /\ UNCHANGED <<cacheNames, act, claimed, clear, tasks, port>>

\* cache.addAll(STATIC_ASSETS) settles: every URL is fetched, and the entries
\* are written together only if every response is ok and the write succeeds
InstallAddAll(fetched, writeOk) ==
  /\ inst.pc = "addAll"
  /\ LET allOk == \A i \in DOMAIN STATIC_ASSETS : fetched[i].status = 200
         got == {STATIC_ASSETS[i] : i \in {j \in DOMAIN STATIC_ASSETS : fetched[j].status = 200}}
     IN
     IF allOk /\ writeOk
     THEN /\ store' = IF inst.orphan THEN store
                      ELSE [store EXCEPT ![CACHE_NAME] =
                              [u \in DOMAIN store[CACHE_NAME] \cup SeqToSet(STATIC_ASSETS) |->
                                 IF u \in SeqToSet(STATIC_ASSETS)
                                 THEN EntryOf(fetched[CHOOSE i \in DOMAIN STATIC_ASSETS :
                                                        STATIC_ASSETS[i] = u])
                                 ELSE store[CACHE_NAME][u]]]
          /\ inst' = [inst EXCEPT !.pc = "done", !.fetched = got]
     ELSE /\ store' = store
          /\ inst' = [inst EXCEPT !.pc = "done", !.logged = TRUE, !.fetched = got]
  /\ phase' = "installed"
  /\ UNCHANGED <<cacheNames, act, claimed, clear, tasks, port>>

\* what a manifest fetch at install can settle with
InstallOutcomes == {Response("network", 200, "b1"), Response("network", 404, "b1"), NetError}

\* ----------------------------------------------------------------- activate
\* a reclaim test that spares the static generation only
IsStaleButStatic(cacheName) == cacheName # CACHE_NAME

\* a reclaim test that finds no name stale
IsStaleNever(cacheName) == FALSE

\* the reclaim test of the activate listener
IsStale(cacheName) == cacheName # CACHE_NAME /\ cacheName # DYNAMIC_CACHE

IdleInstall == [pc |-> "idle", logged |-> FALSE, orphan |-> FALSE, fetched |-> {}]

\* the install chain has settled and is gone when the activate event is fired
ActivateEvent ==
  /\ phase = "installed"
  /\ phase' = "activating"
  /\ inst' = IdleInstall
  /\ act' = [act EXCEPT !.pc = "keys"]
  /\ UNCHANGED <<cacheNames, store, claimed, clear, tasks, port>>

\* a reclaim that deletes every name it enumerates
ActKeysAll ==
  /\ act.pc = "keys"
  /\ act' = [act EXCEPT !.pc = "deleting",
                        !.snapshot = SeqToSet(cacheNames),
                        !.pending = SeqToSet(cacheNames)]
  /\ UNCHANGED <<phase, cacheNames, store, inst, claimed, clear, tasks, port>>

\* caches.keys() settles: caches.delete is called for every stale name
ActKeys ==
  /\ act.pc = "keys"
  /\ act' = [act EXCEPT !.pc = "deleting",
                        !.snapshot = SeqToSet(cacheNames),
                        !.pending = {n \in SeqToSet(cacheNames) : IsStale(n)}]
  /\ UNCHANGED <<phase, cacheNames, store, inst, claimed, clear, tasks, port>>

\* one caches.delete of the reclaim settles
ActDelete(n) ==
  /\ n \in act.pending
  /\ DeleteCache(n)
  /\ act' = [act EXCEPT !.pending = @ \ {n}, !.deleted = @ \cup {n}]
  /\ UNCHANGED <<phase, claimed, clear, port>>

\* the claim chained to caches.keys() instead of to Promise.all
ClaimEarly == act.pc = "deleting"

\* Promise.all has resolved: .then(() => self.clients.claim())
ClaimReady == act.pc = "deleting" /\ act.pending = {}

ActClaim ==
  /\ ClaimReady
  /\ claimed' = TRUE
  /\ act' = [pc |-> "done", snapshot |-> {}, pending |-> act.pending, deleted |-> {}]
  /\ phase' = "activated"
  /\ UNCHANGED <<cacheNames, store, inst, clear, tasks, port>>

\* the activate listener run once more by a worker of the same script, on the
\* caches the earlier run left
Reactivate ==
  /\ phase = "activated"
  /\ act.pc = "done"
  /\ phase' = "activating"
  /\ act' = [act EXCEPT !.pc = "keys"]
  /\ UNCHANGED <<cacheNames, store, inst, claimed, clear, tasks, port>>

\* one caches.delete of the reclaim rejects: Promise.all rejects, the claim is
\* skipped and the rejected waitUntil promise ends the activation
ActDeleteFails(n) ==
  /\ act.pc = "deleting"
  /\ n \in act.pending
  /\ act' = [pc |-> "rejected", snapshot |-> {}, pending |-> act.pending \ {n},
             deleted |-> {}]
  /\ phase' = "activated"
  /\ UNCHANGED <<cacheNames, store, inst, claimed, clear, tasks, port>>

\* ----------------------------------------------------------------- messages
\* message {type: 'CLEAR_CACHE'}: waitUntil(caches.keys().then(...))
ClearEvent ==
  /\ clear.pc = "idle"
  /\ clear' = [clear EXCEPT !.pc = "keys"]
  /\ port' = <<>>
  /\ UNCHANGED <<phase, cacheNames, store, inst, act, claimed, tasks>>

\* a CLEAR_CACHE that spares the two current generations
ClearKeysStale ==
  /\ clear.pc = "keys"
  /\ clear' = IF {n \in SeqToSet(cacheNames) : IsStale(n)} = {}
              THEN [pc |-> "idle", pending |-> {}]
              ELSE [pc |-> "deleting",
                    pending |-> {n \in SeqToSet(cacheNames) : IsStale(n)}]
  /\ UNCHANGED <<phase, cacheNames, store, inst, act, claimed, tasks, port>>

\* caches.keys() settles: caches.delete is called for every name
ClearKeys ==
  /\ clear.pc = "keys"
  /\ clear' = IF cacheNames = <<>> THEN [pc |-> "idle", pending |-> {}]
              ELSE [pc |-> "deleting", pending |-> SeqToSet(cacheNames)]
  /\ UNCHANGED <<phase, cacheNames, store, inst, act, claimed, tasks, port>>

\* one caches.delete of CLEAR_CACHE settles
ClearDelete(n) ==
  /\ clear.pc = "deleting"
  /\ n \in clear.pending
  /\ DeleteCache(n)
  /\ clear' = IF clear.pending = {n} THEN [pc |-> "idle", pending |-> {}]
              ELSE [clear EXCEPT !.pending = @ \ {n}]
  /\ UNCHANGED <<phase, act, claimed, port>>

\* message {type: 'GET_VERSION'}: event.ports[0].postMessage({version: CACHE_NAME})
GetVersionEvent ==
  /\ port' = <<[version |-> CACHE_NAME]>>
  /\ UNCHANGED <<phase, cacheNames, store, inst, act, claimed, clear, tasks>>

\* the message types the listener has a branch for, and one it has none for
MessageTypes == {"SKIP_WAITING", "CLEAR_CACHE", "GET_VERSION", "PING"}

\* a message of another type: SKIP_WAITING calls self.skipWaiting(), which the
\* install listener has called already; a type without a branch does nothing
OtherMessageEvent(type) ==
  /\ type \notin {"CLEAR_CACHE", "GET_VERSION"}
  /\ port' = <<>>
  /\ UNCHANGED <<phase, cacheNames, store, inst, act, claimed, clear, tasks>>

\* -------------------------------------------------------------- fetch event
SetTask(t, r) == tasks' = [tasks EXCEPT ![t] = r]

\* a listener that hands cache-first requests to staleWhileRevalidate
FetchEventRevalidate(t, req) ==
  /\ phase = "activated"
  /\ tasks[t].pc = "idle"
  /\ LET s == IF Classify(req) = "cacheFirst" THEN "staleWhileRevalidate"
              ELSE Classify(req) IN
     SetTask(t, [IdleTask EXCEPT
                   !.req = req, !.strategy = s,
                   !.pc = CASE s = "bypass" -> "passthrough"
                            [] s = "networkFirst" -> "nf_fetch"
                            [] s = "staleWhileRevalidate" -> "swr_match",
                   !.nfetch = IF s = "networkFirst" THEN 1 ELSE 0])
  /\ UNCHANGED <<phase, cacheNames, store, inst, act, claimed, clear, port>>

\* the fetch listener: respondWith(executor(request)), or a plain return
FetchEvent(t, req) ==
  /\ phase = "activated"
  /\ tasks[t].pc = "idle"
  /\ LET s == Classify(req) IN
     SetTask(t, [IdleTask EXCEPT
                   !.req = req, !.strategy = s,
                   !.pc = CASE s = "bypass" -> "passthrough"
                            [] s = "networkFirst" -> "nf_fetch"
                            [] s = "cacheFirst" -> "cf_match",
                   !.nfetch = IF s = "networkFirst" THEN 1 ELSE 0])
  /\ UNCHANGED <<phase, cacheNames, store, inst, act, claimed, clear, port>>

\* a write-through test that lets every response through
CacheableAny(response) == TRUE

\* response.status === 200: the write-through test of the executors
Cacheable(response) == response.status = 200

\* ------------------------------------------------------------ networkFirst
\* await fetch(request) settles
NFFetch(t, outcome) ==
  /\ tasks[t].pc = "nf_fetch"
  /\ SetTask(t, IF outcome = NetError
                THEN [tasks[t] EXCEPT !.net = outcome, !.pc = "nf_match"]
                ELSE IF Cacheable(outcome)
                THEN [tasks[t] EXCEPT !.net = outcome, !.pc = "nf_open"]
                ELSE [tasks[t] EXCEPT !.net = outcome, !.pc = "done",
                                      !.result = outcome])
  /\ UNCHANGED <<phase, cacheNames, store, inst, act, claimed, clear, port>>

\* await caches.open(DYNAMIC_CACHE) settles: cache.put is started and the
\* network response returned; a rejection lands in the catch block
NFOpen(t, ok) ==
  /\ tasks[t].pc = "nf_open"
  /\ IF ok
     THEN /\ cacheNames' = Opened(cacheNames, DYNAMIC_CACHE)
          /\ SetTask(t, [tasks[t] EXCEPT !.pc = "done", !.put = "pending",
                                         !.result = tasks[t].net])
     ELSE /\ cacheNames' = cacheNames
          /\ SetTask(t, [tasks[t] EXCEPT !.pc = "nf_match"])
  /\ UNCHANGED <<phase, store, inst, act, claimed, clear, port>>

\* catch: await caches.match(request) settles
NFMatch(t) ==
  /\ tasks[t].pc = "nf_match"
  /\ LET cachedResponse == CachesMatch(tasks[t].req.url) IN
     SetTask(t, IF cachedResponse # NoResponse
                THEN [tasks[t] EXCEPT !.pc = "done", !.result = cachedResponse]
                ELSE IF tasks[t].req.mode = "navigate"
                THEN [tasks[t] EXCEPT !.pc = "nf_index"]
                ELSE [tasks[t] EXCEPT !.pc = "done", !.result = Synth408])
  /\ UNCHANGED <<phase, cacheNames, store, inst, act, claimed, clear, port>>

\* return caches.match('/index.html') settles
NFIndex(t) ==
  /\ tasks[t].pc = "nf_index"
  /\ SetTask(t, [tasks[t] EXCEPT !.pc = "done", !.result = CachesMatch(IndexHtml)])
  /\ UNCHANGED <<phase, cacheNames, store, inst, act, claimed, clear, port>>

\* -------------------------------------------------------------- cacheFirst
\* cacheFirst revalidating: the lookup result is ignored and the network asked
CFMatchRefetch(t) ==
  /\ tasks[t].pc = "cf_match"
  /\ SetTask(t, [tasks[t] EXCEPT !.pc = "cf_fetch", !.nfetch = @ + 1])
  /\ UNCHANGED <<phase, cacheNames, store, inst, act, claimed, clear, port>>

\* await caches.match(request) settles
CFMatch(t) ==
  /\ tasks[t].pc = "cf_match"
  /\ LET cachedResponse == CachesMatch(tasks[t].req.url) IN
     SetTask(t, IF cachedResponse # NoResponse
                THEN [tasks[t] EXCEPT !.pc = "done", !.result = cachedResponse]
                ELSE [tasks[t] EXCEPT !.pc = "cf_fetch", !.nfetch = @ + 1])
  /\ UNCHANGED <<phase, cacheNames, store, inst, act, claimed, clear, port>>

\* cacheFirst treating every non-200 response as a failure
CFFetchStrict(t, outcome) ==
  /\ tasks[t].pc = "cf_fetch"
  /\ SetTask(t, IF outcome = NetError \/ ~Cacheable(outcome)
                THEN [tasks[t] EXCEPT !.net = outcome, !.pc = "done",
                                      !.result = Synth503]
                ELSE [tasks[t] EXCEPT !.net = outcome, !.pc = "cf_open"])
  /\ UNCHANGED <<phase, cacheNames, store, inst, act, claimed, clear, port>>

\* await fetch(request) settles
CFFetch(t, outcome) ==
  /\ tasks[t].pc = "cf_fetch"
  /\ SetTask(t, IF outcome = NetError
                THEN [tasks[t] EXCEPT !.net = outcome, !.pc = "done",
                                      !.result = Synth503]
                ELSE IF Cacheable(outcome)
                THEN [tasks[t] EXCEPT !.net = outcome, !.pc = "cf_open"]
                ELSE [tasks[t] EXCEPT !.net = outcome, !.pc = "done",
                                      !.result = outcome])
  /\ UNCHANGED <<phase, cacheNames, store, inst, act, claimed, clear, port>>

\* await caches.open(DYNAMIC_CACHE) settles
CFOpen(t, ok) ==
  /\ tasks[t].pc = "cf_open"
  /\ IF ok
     THEN /\ cacheNames' = Opened(cacheNames, DYNAMIC_CACHE)
          /\ SetTask(t, [tasks[t] EXCEPT !.pc = "done", !.put = "pending",
                                         !.result = tasks[t].net])
     ELSE /\ cacheNames' = cacheNames
          /\ SetTask(t, [tasks[t] EXCEPT !.pc = "done", !.result = Synth503])
  /\ UNCHANGED <<phase, store, inst, act, claimed, clear, port>>

\* ---------------------------------------------------- staleWhileRevalidate
\* the executor called on a request: no listener hands it one
SWRCall(t, req) ==
  /\ phase = "activated"
  /\ tasks[t].pc = "idle"
  /\ req.method = "GET"
  /\ SetTask(t, [IdleTask EXCEPT !.req = req, !.strategy = "staleWhileRevalidate",
                                 !.pc = "swr_match"])
  /\ UNCHANGED <<phase, cacheNames, store, inst, act, claimed, clear, port>>

\* staleWhileRevalidate waiting for the network whatever the lookup found
SWRMatchWait(t) ==
  /\ tasks[t].pc = "swr_match"
  /\ SetTask(t, [tasks[t] EXCEPT !.pc = "swr_wait", !.bg = "fetch", !.nfetch = 1])
  /\ UNCHANGED <<phase, cacheNames, store, inst, act, claimed, clear, port>>

\* await caches.match(request) settles; fetch(request) is started, and the
\* task resolves at once with the cached response if there is one
SWRMatch(t) ==
  /\ tasks[t].pc = "swr_match"
  /\ LET cachedResponse == CachesMatch(tasks[t].req.url) IN
     SetTask(t, IF cachedResponse # NoResponse
                THEN [tasks[t] EXCEPT !.pc = "done", !.result = cachedResponse,
                                      !.bg = "fetch", !.nfetch = 1]
                ELSE [tasks[t] EXCEPT !.pc = "swr_wait", !.bg = "fetch", !.nfetch = 1])
  /\ UNCHANGED <<phase, cacheNames, store, inst, act, claimed, clear, port>>

\* what networkFetch resolves with: the response, or undefined from the catch
SWRNetworkFetch(outcome) == IF outcome = NetError THEN NoResponse ELSE outcome

\* fetch(request) settles: .then starts caches.open for a 200 and passes the
\* response on, .catch logs
SWRFetch(t, outcome) ==
  /\ tasks[t].bg = "fetch"
  /\ LET bg == IF outcome # NetError /\ Cacheable(outcome) THEN "open" ELSE "none"
         waiting == tasks[t].pc = "swr_wait"
     IN SetTask(t, [tasks[t] EXCEPT
                      !.net = outcome, !.bg = bg,
                      !.pc = IF waiting THEN "done" ELSE @,
                      !.result = IF waiting THEN SWRNetworkFetch(outcome) ELSE @])
  /\ UNCHANGED <<phase, cacheNames, store, inst, act, claimed, clear, port>>

\* caches.open(DYNAMIC_CACHE) settles: cache.then(c => c.put(...)), or an
\* unhandled rejection
SWROpen(t, ok) ==
  /\ tasks[t].bg = "open"
  /\ IF ok
     THEN /\ cacheNames' = Opened(cacheNames, DYNAMIC_CACHE)
          /\ SetTask(t, [tasks[t] EXCEPT !.bg = "none", !.put = "pending"])
     ELSE /\ cacheNames' = cacheNames
          /\ SetTask(t, [tasks[t] EXCEPT !.bg = "none", !.put = "failed"])
  /\ UNCHANGED <<phase, store, inst, act, claimed, clear, port>>

\* ------------------------------------------------------------ write-through
\* the response the executors hand to cache.put: networkResponse.clone()
PutValue(task) == task.net

\* a write-through that lands in the static generation
PutSettleStatic(t, ok) ==
  /\ tasks[t].put = "pending"
  /\ IF ok
     THEN /\ store' = IF tasks[t].orphan THEN store
                      ELSE [store EXCEPT ![CACHE_NAME] =
                              PutEntry(@, tasks[t].req.url, EntryOf(PutValue(tasks[t])))]
          /\ SetTask(t, [tasks[t] EXCEPT !.put = "ok"])
     ELSE /\ store' = store
          /\ SetTask(t, [tasks[t] EXCEPT !.put = "failed"])
  /\ UNCHANGED <<phase, cacheNames, inst, act, claimed, clear, port>>

\* cache.put(request, clone) settles; nobody awaits it, so a rejection is an
\* unhandled rejection
PutSettle(t, ok) ==
  /\ tasks[t].put = "pending"
  /\ IF ok
     THEN /\ store' = IF tasks[t].orphan THEN store
                      ELSE [store EXCEPT ![DYNAMIC_CACHE] =
                              PutEntry(@, tasks[t].req.url, EntryOf(PutValue(tasks[t])))]
          /\ SetTask(t, [tasks[t] EXCEPT !.put = "ok"])
     ELSE /\ store' = store
          /\ SetTask(t, [tasks[t] EXCEPT !.put = "failed"])
  /\ UNCHANGED <<phase, cacheNames, inst, act, claimed, clear, port>>

\* the response has been delivered and nothing of the task is left running
Release(t) ==
  /\ tasks[t].pc \in {"done", "passthrough"}
  /\ tasks[t].bg = "none"
  /\ tasks[t].put # "pending"
  /\ SetTask(t, IdleTask)
  /\ UNCHANGED <<phase, cacheNames, store, inst, act, claimed, clear, port>>

\* ------------------------------------------------------------ specification
Lifecycle ==
  \/ InstallEvent
  \/ \E ok \in BOOLEAN : InstallOpen(ok)
  \/ /\ inst.pc = "addAll"
     /\ \E fetched \in [DOMAIN STATIC_ASSETS -> InstallOutcomes], writeOk \in BOOLEAN :
          InstallAddAll(fetched, writeOk)
  \/ ActivateEvent
  \/ ActKeys
  \/ \E n \in CacheNamesAll : ActDelete(n)
  \/ ActClaim

Messages ==
  \/ ClearEvent
  \/ ClearKeys
  \/ \E n \in CacheNamesAll : ClearDelete(n)

Executors(outcomes) ==
  \/ \E t \in TaskIds, outcome \in outcomes : NFFetch(t, outcome)
  \/ \E t \in TaskIds, ok \in BOOLEAN : NFOpen(t, ok)
  \/ \E t \in TaskIds : NFMatch(t)
  \/ \E t \in TaskIds : NFIndex(t)
  \/ \E t \in TaskIds : CFMatch(t)
  \/ \E t \in TaskIds, outcome \in outcomes : CFFetch(t, outcome)
  \/ \E t \in TaskIds, ok \in BOOLEAN : CFOpen(t, ok)
  \/ \E t \in TaskIds, ok \in BOOLEAN : PutSettle(t, ok)
  \/ \E t \in TaskIds : Release(t)

Next ==
  \/ Lifecycle
  \/ Messages
  \/ \E t \in TaskIds, req \in CoreRequests : FetchEvent(t, req)
  \/ Executors(NetOutcomes)

Spec == Init /\ [][Next]_vars

\* the executors called directly, staleWhileRevalidate among them
GetRequests ==
  { Request("GET", U_INDEX, WithAccept(A_HTML), "navigate"),
    Request("GET", U_LOGO, WithAccept(A_IMAGE), "cors") }

StaleWhileRevalidate ==
  \/ \E t \in TaskIds, req \in GetRequests : SWRCall(t, req)
  \/ \E t \in TaskIds : SWRMatch(t)
  \/ \E t \in TaskIds, outcome \in NetOutcomes : SWRFetch(t, outcome)
  \/ \E t \in TaskIds, ok \in BOOLEAN : SWROpen(t, ok)

NextDirect == Next \/ StaleWhileRevalidate

SpecDirect == Init /\ [][NextDirect]_vars

\* the listener fed every request descriptor, one request at a time, while
\* the network is unreachable
NextDispatch ==
  \/ Lifecycle
  \/ \E req \in AllRequests : FetchEvent(1, req)
  \/ \E t \in TaskIds : NFFetch(t, NetError)
  \/ \E t \in TaskIds : NFMatch(t)
  \/ \E t \in TaskIds : NFIndex(t)
  \/ \E t \in TaskIds : CFMatch(t)
  \/ \E t \in TaskIds : CFFetch(t, NetError)
  \/ \E t \in TaskIds : Release(t)

SpecDispatch == Init /\ [][NextDispatch]_vars

\* the handlers on a storage whose caches.delete may reject
NextFault == Next \/ \E n \in CacheNamesAll : ActDeleteFails(n)

SpecFault == Init /\ [][NextFault]_vars

\* the handlers with the activate event fired again, with every message type
\* and on a storage whose caches.delete may reject
ControlRequests ==
  { Request("GET", U_INDEX, WithAccept(A_HTML), "navigate"),
    Request("GET", U_LOGO, WithAccept(A_IMAGE), "cors") }

NextControl ==
  \/ Lifecycle
  \/ Reactivate
  \/ \E n \in CacheNamesAll : ActDeleteFails(n)
  \/ Messages
  \/ GetVersionEvent
  \/ \E type \in MessageTypes : OtherMessageEvent(type)
  \/ \E t \in TaskIds, req \in ControlRequests : FetchEvent(t, req)
  \/ Executors(NetOutcomes)

SpecControl == Init /\ [][NextControl]_vars

\* the message listener on a worker at rest: a message is delivered when no
\* request is in flight, and no request arrives while CLEAR_CACHE runs
AtRest == phase = "activated" /\ \A t \in TaskIds : tasks[t] = IdleTask

NextQuiet ==
  \/ Lifecycle
  \/ AtRest /\ ClearEvent
  \/ ClearKeys
  \/ \E n \in CacheNamesAll : ClearDelete(n)
  \/ AtRest /\ GetVersionEvent
  \/ AtRest /\ \E type \in MessageTypes : OtherMessageEvent(type)
  \/ clear.pc = "idle" /\ \E t \in TaskIds, req \in CoreRequests : FetchEvent(t, req)
  \/ Executors(NetOutcomes)

SpecQuiet == Init /\ [][NextQuiet]_vars

\* =================================================================== claims
\* readings of a task record
IsResponse(r) == r.src \in {"network", "cache", "synthesized"}
FetchResolved(task) == task.net.src = "network"
FetchRejected(task) == task.net = NetError
Settled(task) == task.pc = "done"

\* the caches.match continuation of cacheFirst, taken with a matching entry
C1_HitStep ==
  \A t \in TaskIds :
    (/\ tasks[t].pc = "cf_match"
     /\ tasks'[t].pc # "cf_match"
     /\ CachesMatch(tasks[t].req.url) # NoResponse)
    => /\ tasks'[t].pc = "done"
       /\ tasks'[t].result = CachesMatch(tasks[t].req.url)
       /\ tasks'[t].nfetch = 0
       /\ cacheNames' = cacheNames /\ store' = store
       /\ MatchIn(cacheNames', store', tasks[t].req.url) = EntryOf(tasks'[t].result)

\* a cacheFirst task settled from the cache has called nothing else
C1_HitState ==
  \A t \in TaskIds :
    (tasks[t].strategy = "cacheFirst" /\ Settled(tasks[t]) /\ tasks[t].result.src = "cache")
    => tasks[t].nfetch = 0 /\ tasks[t].put = "none" /\ tasks[t].net = NoResponse

\* C1: a cacheFirst request that finds a matching entry in some generation
\* resolves with that entry (the first in creation order), never calls fetch
\* and changes no generation, so the same lookup after it yields the same
\* entry again.
C1_CacheFirstHit == [][C1_HitStep]_vars /\ []C1_HitState

\* C1 witness: a cacheFirst task settled with a cached entry, no fetch made
C1_Witness ==
  \E t \in TaskIds :
    /\ tasks[t].strategy = "cacheFirst"
    /\ Settled(tasks[t])
    /\ tasks[t].result.src = "cache"
    /\ tasks[t].nfetch = 0

\* a networkFirst task whose fetch resolved settles with the network response
C2_Returned ==
  \A t \in TaskIds :
    (/\ tasks[t].strategy = "networkFirst"
     /\ Settled(tasks[t])
     /\ FetchResolved(tasks[t]))
    => tasks[t].result = tasks[t].net

\* a completed put of networkFirst leaves an equal entry in the dynamic generation
C2_WrittenStep ==
  \A t \in TaskIds :
    (/\ tasks[t].strategy = "networkFirst"
     /\ tasks[t].put = "pending" /\ ~tasks[t].orphan
     /\ tasks'[t].put = "ok")
    => Lookup(store'[DYNAMIC_CACHE], tasks[t].req.url) = EntryOf(tasks[t].net)

\* C2: a networkFirst request whose fetch succeeds resolves with the network
\* response, and the write-through leaves in the dynamic generation an entry
\* for the request equal to that response.
C2_NetworkFirstSuccess == []C2_Returned /\ [][C2_WrittenStep]_vars

\* the first lookup of the fallback: the matching entry, else on to
\* /index.html for a navigation, else the 408
C3_MatchStep ==
  \A t \in TaskIds :
    (/\ tasks[t].pc = "nf_match" /\ tasks'[t].pc # "nf_match"
     /\ FetchRejected(tasks[t]))
    => /\ cacheNames' = cacheNames /\ store' = store
       /\ IF CachesMatch(tasks[t].req.url) # NoResponse
          THEN Settled(tasks'[t]) /\ tasks'[t].result = CachesMatch(tasks[t].req.url)
          ELSE IF tasks[t].req.mode = "navigate"
          THEN tasks'[t].pc = "nf_index"
          ELSE Settled(tasks'[t]) /\ tasks'[t].result = Synth408

\* the second lookup of the fallback: the cached /index.html entry
C3_IndexStep ==
  \A t \in TaskIds :
    (/\ tasks[t].pc = "nf_index" /\ tasks'[t].pc # "nf_index"
     /\ FetchRejected(tasks[t]))
    => /\ cacheNames' = cacheNames /\ store' = store
       /\ Settled(tasks'[t])
       /\ tasks'[t].result.src = "cache"
       /\ EntryOf(tasks'[t].result) = MatchIn(cacheNames, store, IndexHtml)

\* no put is started on the failure path
C3_NoWrite ==
  \A t \in TaskIds :
    (tasks[t].strategy = "networkFirst" /\ FetchRejected(tasks[t]))
    => tasks[t].put = "none"

\* C3: a networkFirst request whose fetch fails resolves, in this order, with
\* the matching cached entry, else for a navigation with the cached
\* /index.html entry, else with the synthesized 408; it writes to no cache.
C3_NetworkFirstFallback ==
  [][C3_MatchStep /\ C3_IndexStep]_vars /\ []C3_NoWrite

\* C4: every task of networkFirst, cacheFirst and staleWhileRevalidate that
\* settles does so with a response value: never with undefined, never with a
\* rejection.
C4_SettlesWithResponse ==
  \A t \in TaskIds :
    (tasks[t].strategy \in {"networkFirst", "cacheFirst", "staleWhileRevalidate"}
     /\ Settled(tasks[t]))
    => IsResponse(tasks[t].result)

\* C5: in networkFirst and cacheFirst, once the fetch has succeeded the caller
\* gets that network response whether or not opening the dynamic generation
\* or the put succeeds, and no write failure is left as an unhandled rejection.
C5_WriteFailureHarmless ==
  \A t \in TaskIds :
    (/\ tasks[t].strategy \in {"networkFirst", "cacheFirst"}
     /\ FetchResolved(tasks[t])
     /\ Settled(tasks[t]))
    => /\ tasks[t].result = tasks[t].net
       /\ tasks[t].put # "failed"

C7_Order(method, url, accept, noAccept) ==
  IF method # "GET" THEN "bypass"
  ELSE IF Protocol(url) \notin {<<"http", ":">>, <<"http", "s", ":">>} THEN "bypass"
  ELSE IF noAccept THEN "networkFirst"
  ELSE IF Includes(accept, <<"text/html">>) THEN "networkFirst"
  ELSE IF Includes(accept, <<"image">>) THEN "cacheFirst"
  ELSE IF \E pattern \in {<<".css">>, <<".js">>, <<"fonts.googleapis">>,
                          <<"fonts.gstatic">>, <<"cdn.jsdelivr.net">>} :
            Includes(url, pattern) THEN "cacheFirst"
  ELSE "networkFirst"

\* slot t holds a request the fetch listener was handed
C7_Dispatched(t) == tasks[t].pc # "idle"

\* a bypassed request has no respondWith promise, no fetch and no put
C7_Bypass ==
  \A t \in TaskIds :
    /\ tasks[t].strategy = "bypass"
         => /\ tasks[t].pc = "passthrough"
            /\ tasks[t].nfetch = 0 /\ tasks[t].put = "none" /\ tasks[t].bg = "none"
            /\ tasks[t].result = NoResponse
    /\ (C7_Dispatched(t) /\ tasks[t].strategy # "bypass") => tasks[t].pc # "passthrough"

\* the listener returning without respondWith touches no cache
C7_BypassStep ==
  \A t \in TaskIds :
    (tasks[t].pc = "idle" /\ tasks'[t].pc = "passthrough")
    => cacheNames' = cacheNames /\ store' = store

\* C7 as stated: the listener classifies by first match in the order method,
\* scheme, accept absent, HTML, image, static-asset URL, default, where a
\* header counts as absent only when the request does not carry it; a bypassed
\* request gets no respondWith, no fetch and no cache operation.
C7_ClassifyAbsent ==
  \A t \in TaskIds :
    C7_Dispatched(t) =>
      LET a == HeadersGet(tasks[t].req.headers, "accept") IN
      /\ tasks[t].strategy = C7_Order(tasks[t].req.method, tasks[t].req.url, a.str, a.isNull)
      /\ C7_Bypass

\* the order of C7 with an empty accept header counted as absent
C7_StateOrder ==
  \A t \in TaskIds :
    C7_Dispatched(t) =>
      LET a == HeadersGet(tasks[t].req.headers, "accept") IN
      tasks[t].strategy =
        C7_Order(tasks[t].req.method, tasks[t].req.url, a.str, a.isNull \/ a.str = <<>>)

\* C7 amended: the listener classifies by first match in the order method,
\* scheme, accept absent or empty, HTML, image, static-asset URL, default; the
\* result depends on (method, URL, accept header) only, and a bypassed request
\* gets no respondWith, no fetch and no cache operation.
C7_ClassifyAbsentOrEmpty == [](C7_StateOrder /\ C7_Bypass) /\ [][C7_BypassStep]_vars

\* C7 witness: a GET whose accept header names both HTML and image, handed to
\* networkFirst
C7_Witness ==
  \E t \in TaskIds :
    /\ tasks[t].req.method = "GET"
    /\ tasks[t].req.headers = WithAccept(A_BOTH)
    /\ tasks[t].strategy = "networkFirst"
    /\ tasks[t].pc = "nf_fetch"

\* C8: whatever the executors put into a generation is a network response of
\* status 200 fetched for a GET request: every put in flight carries one, and
\* no entry of the dynamic generation has another status.
C8_OnlyOkNetworkResponsesCached ==
  /\ \A t \in TaskIds :
       tasks[t].put \in {"pending", "ok"}
       => /\ PutValue(tasks[t]).src = "network"
          /\ PutValue(tasks[t]).status = 200
          /\ tasks[t].req.method = "GET"
  /\ \A u \in DOMAIN store[DYNAMIC_CACHE] : store[DYNAMIC_CACHE][u].status = 200

\* C8 witness: an executor's put has completed and its 200 response is in the
\* dynamic generation
C8_Witness ==
  /\ Lookup(store[DYNAMIC_CACHE], U_LOGO) = [status |-> 200, body |-> "b2"]
  /\ \E t \in TaskIds : tasks[t].put = "ok" /\ tasks[t].req.url = U_LOGO

\* the two names the reclaim spares
CurrentNames == {CACHE_NAME, DYNAMIC_CACHE}

\* what the reclaim has deleted and still has to delete
C9_ReclaimState ==
  /\ act.pc # "rejected"
  /\ act.pc = "deleting"
       => /\ act.pending \cup act.deleted = act.snapshot \ CurrentNames
          /\ act.deleted \cap SeqToSet(cacheNames) = {}
  /\ ClaimReady => act.deleted = act.snapshot \ CurrentNames

\* a deletion of the reclaim leaves the current generations as they are
C9_ReclaimStep ==
  act'.deleted # act.deleted /\ act.pc = "deleting"
  => /\ store'[CACHE_NAME] = store[CACHE_NAME]
     /\ store'[DYNAMIC_CACHE] = store[DYNAMIC_CACHE]
     /\ SelectSeq(cacheNames', LAMBDA n : n \in CurrentNames)
          = SelectSeq(cacheNames, LAMBDA n : n \in CurrentNames)

C10_ClaimAfterReclaim ==
  /\ claimed => act.pc = "done" /\ act.pending = {}
  /\ act.pc = "rejected" => ~claimed

\* C10 witness: the worker has claimed after reclaiming the old generation
\* that stood beside the dynamic one
C10_Witness ==
  /\ claimed
  /\ act.pc = "done"
  /\ cacheNames = <<DYNAMIC_CACHE, CACHE_NAME>>
  /\ Lookup(store[DYNAMIC_CACHE], U_PAGE) = [status |-> 200, body |-> "b1"]

\* a run of the reclaim that follows a completed one
C11_SecondRun == claimed /\ act.pc \in {"keys", "deleting"}

\* the second run finds nothing to delete and does not fail
C11_NothingPending ==
  /\ (C11_SecondRun /\ act.pc = "deleting") => (act.pending = {} /\ act.deleted = {})
  /\ claimed => act.pc # "rejected"

\* the continuations of the second run leave names and entries as they are
C11_SecondRunStep ==
  (C11_SecondRun /\ act'.pc # act.pc)
  => /\ cacheNames' = cacheNames
     /\ store' = store
     /\ act'.pc \in {"deleting", "done"}

\* C11: the reclaim run again after a completed run, with the same two current
\* names, deletes nothing, does not fail, and leaves the cache names and the
\* entries of every generation as the first run left them.
C11_ReclaimIdempotent == []C11_NothingPending /\ [][C11_SecondRunStep]_vars

\* C11 witness: the second run has enumerated both current generations, each
\* holding entries, and is about to claim
C11_Witness ==
  /\ C11_SecondRun
  /\ act.pc = "deleting"
  /\ act.snapshot = CurrentNames
  /\ store[CACHE_NAME] # EmptyCache
  /\ store[DYNAMIC_CACHE] # EmptyCache

\* a write-through that has stored its response, followed at once by the
\* unified lookup of the same request
C12_RoundTripStep ==
  \A t \in TaskIds :
    (/\ tasks[t].put = "pending" /\ ~tasks[t].orphan
     /\ tasks'[t].put = "ok")
    => MatchIn(cacheNames', store', tasks[t].req.url) = EntryOf(tasks[t].net)

\* C12: after a write-through has stored a network response for a request,
\* caches.match of the same request returns an entry equal to that response,
\* whatever the static generation holds for the URL.
C12_RoundTrip == [][C12_RoundTripStep]_vars

\* addAll has settled after one or more manifest fetches failed
C13_PartialFailure ==
  /\ inst.pc = "done"
  /\ inst.fetched # SeqToSet(STATIC_ASSETS)
  /\ inst.fetched # {}

\* the install chain settles resolved: the failure is logged and the worker is
\* installed, from where the activate event is fired
C13_Completes ==
  inst.pc = "done"
  => /\ phase = "installed"
     /\ inst.fetched # SeqToSet(STATIC_ASSETS) => inst.logged

\* the manifest URLs that were fetched are in the static generation
C13_Populated ==
  (C13_PartialFailure /\ CACHE_NAME \in SeqToSet(cacheNames) /\ ~inst.orphan)
  => \A u \in inst.fetched : Lookup(store[CACHE_NAME], u) # NoEntry

\* C13: installation settles without rejecting whether or not the manifest
\* fetches succeed; when one or more of them fail the failure is logged, the
\* URLs that were fetched stay in the static generation, and the worker goes
\* on to activation.
C13_InstallSurvivesFailures == C13_Completes /\ C13_Populated

\* the static generation holds one entry per manifest URL and nothing else
C14_ExactlyManifest ==
  /\ DOMAIN store[CACHE_NAME] = SeqToSet(STATIC_ASSETS)
  /\ Cardinality(DOMAIN store[CACHE_NAME]) = Len(STATIC_ASSETS)
  /\ \A u \in DOMAIN store[CACHE_NAME] : store[CACHE_NAME][u].status = 200

\* the settling of addAll leaves every other generation as it is
C14_InstallStep ==
  (inst.pc = "addAll" /\ inst'.pc = "done")
  => /\ cacheNames' = cacheNames
     /\ \A n \in CacheNamesAll \ {CACHE_NAME} : store'[n] = store[n]

C15_ClearState ==
  /\ clear.pc = "deleting" => SeqToSet(cacheNames) \subseteq clear.pending
  /\ port \in {<<>>, <<[version |-> CACHE_NAME]>>}

\* caches.keys() of CLEAR_CACHE selects every name, the current two included;
\* each deletion removes its cache; when the last has settled none is left
C15_ClearStep ==
  /\ (clear.pc = "keys" /\ clear'.pc # "keys")
       => /\ clear'.pending = IF cacheNames = <<>> THEN {} ELSE SeqToSet(cacheNames)
          /\ cacheNames' = cacheNames /\ store' = store
  /\ (clear.pc = "deleting" /\ clear'.pending # clear.pending)
       => \A n \in clear.pending \ clear'.pending :
            n \notin SeqToSet(cacheNames') /\ store'[n] = EmptyCache
  /\ (clear.pc # "idle" /\ clear'.pc = "idle")
       => cacheNames' = <<>> /\ \A n \in CacheNamesAll : store'[n] = EmptyCache

\* a message that is not CLEAR_CACHE changes no cache and starts no deletion;
\* GET_VERSION posts {version: CACHE_NAME} on the reply channel
C15_OtherStep ==
  port' # port
  => /\ cacheNames' = cacheNames /\ store' = store
     /\ clear'.pending = clear.pending
     /\ port' # <<>> => (port' = <<[version |-> CACHE_NAME]>> /\ clear' = clear)

\* C15: handled with no request in flight, CLEAR_CACHE deletes every cache that
\* exists, the two current generations included, so that none remains when its
\* task completes; GET_VERSION replies on the reply channel with the static
\* generation's name and changes no cache; a message of another type changes
\* no cache.
C15_ControlMessages == []C15_ClearState /\ [][C15_ClearStep /\ C15_OtherStep]_vars

\* C15 witness: CLEAR_CACHE has deleted the static generation and is about to
\* delete the dynamic one, which holds an entry written by fetch handling,
\* while a GET_VERSION has been answered
C15_Witness ==
  /\ clear.pc = "deleting"
  /\ clear.pending = {DYNAMIC_CACHE}
  /\ cacheNames = <<DYNAMIC_CACHE>>
  /\ Lookup(store[DYNAMIC_CACHE], U_LOGO) = [status |-> 200, body |-> "b2"]
  /\ port = <<[version |-> CACHE_NAME]>>

\* a staleWhileRevalidate task
C16_SWR(t) == tasks[t].strategy = "staleWhileRevalidate"

\* the lookup continuation: with a cached entry the task resolves with it at
\* once, before the refresh fetch has settled, and no cache is changed
C16_MatchStep ==
  \A t \in TaskIds :
    (C16_SWR(t) /\ tasks[t].pc = "swr_match" /\ tasks'[t].pc # "swr_match")
    => /\ cacheNames' = cacheNames /\ store' = store
       /\ tasks'[t].bg = "fetch"
       /\ IF CachesMatch(tasks[t].req.url) # NoResponse
          THEN Settled(tasks'[t]) /\ tasks'[t].result = CachesMatch(tasks[t].req.url)
          ELSE ~Settled(tasks'[t])

\* the refresh settling: the response already returned stays; a failed or
\* non-200 refresh changes no cache and starts no write; a miss resolves with
\* the response the network returned
C16_RefreshStep ==
  \A t \in TaskIds :
    (C16_SWR(t) /\ tasks[t].bg = "fetch" /\ tasks'[t].bg # "fetch")
    => /\ cacheNames' = cacheNames /\ store' = store
       /\ Settled(tasks[t]) => tasks'[t].result = tasks[t].result
       /\ (tasks'[t].net = NetError \/ tasks'[t].net.status # 200)
            => (tasks'[t].bg = "none" /\ tasks'[t].put = "none")
       /\ (~Settled(tasks[t]) /\ FetchResolved(tasks'[t]))
            => (Settled(tasks'[t]) /\ tasks'[t].result = tasks'[t].net)

\* the write of a 200 refresh: the dynamic generation only, and the response
\* already returned stays
C16_WriteStep ==
  \A t \in TaskIds :
    (C16_SWR(t) /\ (tasks[t].bg = "open" \/ tasks[t].put = "pending")
     /\ tasks'[t] # tasks[t] /\ tasks'[t].orphan = tasks[t].orphan
     /\ tasks'[t].pc # "idle")
    => /\ tasks'[t].result = tasks[t].result
       /\ \A n \in CacheNamesAll \ {DYNAMIC_CACHE} : store'[n] = store[n]
       /\ SeqToSet(cacheNames') \subseteq SeqToSet(cacheNames) \cup {DYNAMIC_CACHE}

\* a task that was answered from the cache keeps that answer
C16_HitState ==
  \A t \in TaskIds :
    (C16_SWR(t) /\ Settled(tasks[t]) /\ tasks[t].result.src = "cache")
    => tasks[t].nfetch = 1

\* C16: staleWhileRevalidate with a matching cached entry returns that entry
\* whatever the refresh fetch does: a failed refresh changes no cache, a 200
\* refresh only writes to the dynamic generation; with no cached entry the
\* caller receives the response of the network fetch.
C16_StaleWhileRevalidate ==
  []C16_HitState /\ [][C16_MatchStep /\ C16_RefreshStep /\ C16_WriteStep]_vars

\* C16 witness: a task answered with the cached install-time entry whose
\* refresh has written the newer response to the dynamic generation
C16_Witness ==
  \E t \in TaskIds :
    /\ C16_SWR(t)
    /\ Settled(tasks[t])
    /\ tasks[t].result = Response("cache", 200, "b1")
    /\ tasks[t].put = "ok"
    /\ Lookup(store[DYNAMIC_CACHE], tasks[t].req.url) = [status |-> 200, body |-> "b2"]
    /\ Lookup(store[CACHE_NAME], tasks[t].req.url) = [status |-> 200, body |-> "b1"]

\* a step of fetch handling: a task moves (the orphan mark is set by a
\* deletion, not by the task)
C17_FetchStep ==
  \E t \in TaskIds :
    [tasks'[t] EXCEPT !.orphan = FALSE] # [tasks[t] EXCEPT !.orphan = FALSE]

\* fetch handling leaves the static generation as it is and writes to the
\* dynamic generation only; a write-through for a pre-cached URL leaves an
\* entry for it in both generations
C17_StaticFrame ==
  C17_FetchStep
  => /\ store'[CACHE_NAME] = store[CACHE_NAME]
     /\ store'[OLD_CACHE] = store[OLD_CACHE]
     /\ SelectSeq(cacheNames', LAMBDA n : n # DYNAMIC_CACHE)
          = SelectSeq(cacheNames, LAMBDA n : n # DYNAMIC_CACHE)
     /\ \A t \in TaskIds :
          (/\ tasks[t].put = "pending" /\ tasks'[t].put = "ok" /\ ~tasks[t].orphan
           /\ Lookup(store[CACHE_NAME], tasks[t].req.url) # NoEntry)
          => /\ Lookup(store'[CACHE_NAME], tasks[t].req.url)
                  = Lookup(store[CACHE_NAME], tasks[t].req.url)
             /\ Lookup(store'[DYNAMIC_CACHE], tasks[t].req.url) = EntryOf(tasks[t].net)

\* the static generation holds nothing but what install wrote: manifest URLs
\* with the install-time responses
C17_StaticIsInstalled ==
  \A u \in DOMAIN store[CACHE_NAME] :
    /\ u \in SeqToSet(STATIC_ASSETS)
    /\ store[CACHE_NAME][u] = [status |-> 200, body |-> "b1"]

\* C17: fetch handling never modifies the static generation: under every
\* strategy and every network outcome its entries stay those written at
\* install, every write-through goes to the dynamic generation, and a
\* pre-cached URL that is fetched again has an entry in both generations.
C17_StaticUntouched == []C17_StaticIsInstalled /\ [][C17_StaticFrame]_vars

\* C17 witness: /index.html, pre-cached at install, was fetched again and is
\* now in both generations, the static one still with its install-time entry
C17_Witness ==
  /\ Lookup(store[CACHE_NAME], U_INDEX) = [status |-> 200, body |-> "b1"]
  /\ Lookup(store[DYNAMIC_CACHE], U_INDEX) = [status |-> 200, body |-> "b2"]
  /\ \E t \in TaskIds : tasks[t].put = "ok" /\ tasks[t].req.url = U_INDEX

\* once a reclaim has completed, no cache exists under another name
C18_OnlyCurrent == claimed => SeqToSet(cacheNames) \subseteq CurrentNames

\* a step creates caches under the two current names only
C18_CreateStep == SeqToSet(cacheNames') \ SeqToSet(cacheNames) \subseteq CurrentNames

\* C18: the worker creates caches under CACHE_NAME and DYNAMIC_CACHE only, so
\* once the reclaim of an activation has completed the names of the existing
\* caches stay within these two, through fetch handling, CLEAR_CACHE,
\* GET_VERSION and further activations.
C18_NamesStayCurrent == []C18_OnlyCurrent /\ [][C18_CreateStep]_vars

\* C18 witness: after a completed reclaim that deleted the old generation,
\* CLEAR_CACHE and a GET_VERSION, fetch handling has re-created the dynamic
\* generation and the activate listener is running again
C18_Witness ==
  /\ C11_SecondRun
  /\ cacheNames = <<DYNAMIC_CACHE>>
  /\ store[DYNAMIC_CACHE] # EmptyCache
  /\ port = <<[version |-> CACHE_NAME]>>
  /\ clear.pc = "idle"

\* the executors the listener hands a request to
C19_Dispatchable == {"bypass", "networkFirst", "cacheFirst"}

\* C19: no intercepted request is dispatched to staleWhileRevalidate: for
\* every request descriptor the fetch listener either returns without
\* respondWith or responds with networkFirst or cacheFirst, and no task started
\* by the listener runs a step of staleWhileRevalidate.
C19_NeverRevalidates ==
  /\ \A req \in AllRequests : Classify(req) \in C19_Dispatchable
  /\ \A t \in TaskIds :
       /\ C7_Dispatched(t) => tasks[t].strategy \in C19_Dispatchable
       /\ tasks[t].pc \notin {"swr_match", "swr_wait"}
       /\ tasks[t].bg = "none"

\* C19 witness: a font request with accept */*, the kind of asset that is
\* served stale elsewhere, is in cacheFirst's network fetch
C19_Witness ==
  \E t \in TaskIds :
    /\ tasks[t].req.url = U_GSTATIC
    /\ tasks[t].req.headers = WithAccept(A_ANY)
    /\ tasks[t].strategy = "cacheFirst"
    /\ tasks[t].pc = "cf_fetch"

====
